---- MODULE Spec2Model ----
(***************************************************************************)
(* gorush: the notification pipeline of package gorush.                    *)
(*                                                                         *)
(*   queueNotification  --QueueNotification (bounded channel)-->           *)
(*   startWorker  -->  PushToIOS (GetAPNSClient, one Push per token)       *)
(*                -->  PushToAndroid (CheckMessage, one batched SendHttp)  *)
(*                                                                         *)
(* Every goroutine is a process with a program counter.  An unrecovered    *)
(* panic in any goroutine terminates the Go process: crashed becomes TRUE  *)
(* and no goroutine takes another step.                                    *)
(***************************************************************************)
EXTENDS Naturals, Integers, Sequences, FiniteSets, Bags, TLC

\* ------------------------------------------------------------------ bounds
\* goroutines running startWorker (InitWorkers' workerNum, Core.WorkerNum)
NumWorkers == 2
\* capacity of the channel (InitWorkers' queueNum, Core.QueueNum)
QueueNum == 2
\* concurrent calls of queueNotification, one per accepted HTTP request
NumRequests == 2
\* notifications in all the requests together
MaxNotifications == 3

Workers == 1..NumWorkers
Enqueuers == 1..NumRequests

\* --------------------------------------------------------------- constants
PlatFormIos == 1
PlatFormAndroid == 2
AppNameDefault == "default"
\* CheckMessage's ceiling on Android registration IDs
MaxRegistrationIDs == 1000
\* CheckMessage's ceiling on TimeToLive (4 weeks, in seconds)
MaxTimeToLive == 2419200

\* the nil *apns.Client
NilClient == [app |-> "", gen |-> 0]
\* the nil *uint
NilTTL == -1
\* a nil error
NoErr == ""
\* no entry under a key of apnsClients.clients (present = false)
Absent == [app |-> "", gen |-> -1]

\* ----------------------------------------------------------- configuration
\* PushConf.Apps: the applications of the configuration file.  KeyExt is
\* filepath.Ext(KeyPath); CertLoads tells whether certificate.FromP12File /
\* FromPemFile can decode the file with the configured password.
PushConf ==
    [Apps |->
        [a \in {"default", "shop"} |->
            IF a = "default"
            THEN [Ios |-> [Enabled |-> TRUE, KeyExt |-> ".pem", CertLoads |-> TRUE,
                           Production |-> FALSE],
                  Android |-> [Enabled |-> TRUE, APIKey |-> "key-default"]]
            ELSE [Ios |-> [Enabled |-> TRUE, KeyExt |-> ".p12", CertLoads |-> FALSE,
                           Production |-> TRUE],
                  Android |-> [Enabled |-> FALSE, APIKey |-> "key-shop"]]]]

AppExists(a) == a \in DOMAIN PushConf.Apps

\* ------------------------------------------------------------ notifications
\* PushNotification, the fields the pipeline reads.
Notif(tokens, platform, message, app) ==
    [Tokens |-> tokens, Platform |-> platform, Message |-> message,
     AppID |-> app, APIKey |-> "", TimeToLive |-> NilTTL, Title |-> "",
     Notification |-> [Body |-> "", Title |-> ""]]

IosDefault   == Notif(<<"t1">>, PlatFormIos, "hello", "")
IosShop      == Notif(<<"t3">>, PlatFormIos, "hello", "shop")
IosGhost     == Notif(<<"t1">>, PlatFormIos, "hello", "ghost")
AndDefault   == Notif(<<"t1", "t2">>, PlatFormAndroid, "hello", "default")
AndShop      == Notif(<<"t1">>, PlatFormAndroid, "hello", "shop")
AndNoMessage == Notif(<<"t1">>, PlatFormAndroid, "", "")
OtherPlat    == Notif(<<"t1">>, 3, "hello", "")

\* The RequestPush values a caller hands to queueNotification: none, an iOS
\* notification for the default app, one for an app whose certificate does not
\* load, an unknown app followed by a good Android notification, a disabled
\* platform followed by an empty message, an unsupported platform followed by
\* an iOS notification.
Requests ==
    << <<>>, <<IosDefault>>, <<IosShop>>, <<IosGhost, AndDefault>>,
       <<AndShop, AndNoMessage>>, <<OtherPlat, IosDefault>> >>

\* ------------------------------------------------------------------- state
VARIABLES
    mapIsNil,           \* apnsClients.clients is the nil map: a store to it panics
    clients,            \* apnsClients.clients: AppID -> handle, Absent if no entry
    rlock,              \* goroutines holding apnsClients.lock shared
    wlock,              \* goroutines holding apnsClients.lock exclusively
    QueueNotification,  \* the channel's buffer, oldest first
    epc, eReq, eIdx, eCount, eRet,       \* queueNotification calls
    wpc, wCur, wClient, wErr, wTok, wIsError,   \* workers
    totalCount, iosSuccess, iosError, androidSuccess, androidError, \* StatStorage
    logError,           \* LogError.Error records (bag)
    logPush,            \* LogPush records (bag)
    crashed,            \* the process died of an unrecovered panic
    \* history (not read by the program)
    nextSeq,            \* number of sends on the channel completed so far
    ePlaced,            \* per call: the items its sends placed, in order
    eDropped,           \* per call: notifications skipped as ineligible
    deqLog,             \* receives from the channel, in order: [seq, to]
    completed,          \* items whose dispatch has returned
    initCount,          \* per AppID: executions of initAPNSClient
    initFailed,         \* AppIDs for which initAPNSClient returned an error
    returned,           \* per AppID: the clients GetAPNSClient calls have returned
    netCalls,           \* apnsClient.Push and gcm.SendHttp calls made (bag)
    dispatchRet,        \* [seq, ret]: what PushToIOS / PushToAndroid returned
    \* one call of a function of the package, outside the pipeline
    callArg,            \* the PushNotification the caller holds
    callRes             \* the function called and what it returned

registryVars == <<mapIsNil, clients, rlock, wlock>>
enqVars == <<epc, eReq, eIdx, eCount, eRet, ePlaced, eDropped>>
workerVars == <<wpc, wCur, wClient, wErr, wTok, wIsError>>
statVars == <<iosSuccess, iosError, androidSuccess, androidError>>
histVars == <<deqLog, completed, initCount, initFailed, returned>>
vars == <<mapIsNil, clients, rlock, wlock, QueueNotification, epc, eReq, eIdx, eCount, eRet,
          wpc, wCur, wClient, wErr, wTok, wIsError, totalCount, iosSuccess,
          iosError, androidSuccess, androidError, logError, logPush, crashed,
          nextSeq, ePlaced, eDropped, deqLog, completed, initCount, initFailed,
          returned, netCalls, dispatchRet, callArg, callRes>>

traceVars == <<netCalls, dispatchRet>>
callVars == <<callArg, callRes>>
pipelineVars ==
    <<registryVars, QueueNotification, enqVars, workerVars, totalCount, statVars,
      logError, logPush, crashed, nextSeq, histVars, traceVars>>

NoItem == [seq |-> 0, n |-> Notif(<<>>, 0, "", "")]
AllApps == DOMAIN PushConf.Apps \cup {"ghost"}

\* gcm.HttpMessage, the fields GetAndroidNotification decides
NoMessage ==
    [RegistrationIds |-> <<>>, TimeToLive |-> NilTTL,
     Notification |-> [Body |-> "", Title |-> ""]]

\* no function has been called
NoResult == [fn |-> "none", arg |-> NoItem.n, err |-> NoErr, msg |-> NoMessage]

\* the number of notifications in the requests f of the calls S
RECURSIVE SumLen(_, _)
SumLen(f, S) ==
    IF S = {} THEN 0
    ELSE LET x == CHOOSE y \in S : TRUE IN Len(f[x]) + SumLen(f, S \ {x})

\* InitWorkers has run and nothing is in flight
Quiescent ==
    /\ clients = [a \in AllApps |-> Absent]
    /\ rlock = {}
    /\ wlock = {}
    /\ QueueNotification = <<>>
    /\ epc = [e \in Enqueuers |-> "loop"]
    /\ eIdx = [e \in Enqueuers |-> 1]
    /\ eCount = [e \in Enqueuers |-> 0]
    /\ eRet = [e \in Enqueuers |-> 0]
    /\ wpc = [w \in Workers |-> "recv"]
    /\ wCur = [w \in Workers |-> NoItem]
    /\ wClient = [w \in Workers |-> NilClient]
    /\ wErr = [w \in Workers |-> NoErr]
    /\ wTok = [w \in Workers |-> 0]
    /\ wIsError = [w \in Workers |-> FALSE]
    /\ totalCount = 0
    /\ iosSuccess = 0
    /\ iosError = 0
    /\ androidSuccess = 0
    /\ androidError = 0
    /\ logError = EmptyBag
    /\ logPush = EmptyBag
    /\ crashed = FALSE
    /\ nextSeq = 0
    /\ ePlaced = [e \in Enqueuers |-> <<>>]
    /\ eDropped = [e \in Enqueuers |-> 0]
    /\ deqLog = <<>>
    /\ completed = {}
    /\ initCount = [a \in AllApps |-> 0]
    /\ initFailed = {}
    /\ returned = [a \in AllApps |-> {}]
    /\ netCalls = EmptyBag
    /\ dispatchRet = {}

Init ==
    /\ Quiescent
    \* var apnsClients = &ApnsClients{} leaves the map nil; whether package
    \* initialisation gives it a map is not fixed by notification.go, so both
    \* are admitted.
    /\ mapIsNil \in BOOLEAN
    \* the calls are interchangeable: they are numbered in the order of Requests
    /\ \E k \in [Enqueuers -> DOMAIN Requests] :
          /\ \A e1, e2 \in Enqueuers : e1 <= e2 => k[e1] <= k[e2]
          /\ eReq = [e \in Enqueuers |-> Requests[k[e]]]
    /\ SumLen(eReq, Enqueuers) <= MaxNotifications
    /\ callArg = NoItem.n
    /\ callRes = NoResult

Running == ~crashed

\* ------------------------------------------------------------ the channel
\* a send that never waits
ChanCanSend_Unbounded(q) == TRUE
\* a send that puts the item first
ChanSend_Front(q, x) == <<x>> \o q
\* a receive that leaves the item in the buffer
ChanRecvRest_Peek(q) == q

\* QueueNotification <- x proceeds only while the buffer has room
ChanCanSend(q) == Len(q) < QueueNum
ChanSend(q, x) == Append(q, x)
\* <-QueueNotification proceeds only while the buffer is non-empty
ChanCanRecv(q) == Len(q) > 0
ChanRecvValue(q) == Head(q)
ChanRecvRest(q) == Tail(q)

\* ------------------------------------------------------ queueNotification
\* lines 259-261: send notification to `default` app, if app not specified
DefaultApp(n) == IF n.AppID = "" THEN [n EXCEPT !.AppID = AppNameDefault] ELSE n

\* line 264
UnknownApp(n) == ~AppExists(n.AppID)

\* the Android case of the switch left out
PlatformDisabled_IosOnly(n) ==
    CASE n.Platform = PlatFormIos -> ~PushConf.Apps[n.AppID].Ios.Enabled
      [] OTHER -> FALSE

\* lines 269-278 (reached only for a known app)
PlatformDisabled(n) ==
    CASE n.Platform = PlatFormIos -> ~PushConf.Apps[n.AppID].Ios.Enabled
      [] n.Platform = PlatFormAndroid -> ~PushConf.Apps[n.AppID].Android.Enabled
      [] OTHER -> FALSE

\* the notification the loop is at, after the defaulting of its AppID
CurNotif(e) == DefaultApp(eReq[e][eIdx[e]])

InLoop(e) == epc[e] = "loop" /\ eIdx[e] <= Len(eReq[e])

\* lines 264-267: unknown app: log and continue
queueNotification_SkipUnknown(e) ==
    /\ Running
    /\ InLoop(e)
    /\ UnknownApp(CurNotif(e))
    /\ logError' = logError (+) SetToBag({[msg |-> "Unknown app", app |-> CurNotif(e).AppID]})
    /\ eIdx' = [eIdx EXCEPT ![e] = @ + 1]
    /\ eDropped' = [eDropped EXCEPT ![e] = @ + 1]
    /\ UNCHANGED <<traceVars, callVars, registryVars, QueueNotification, epc, eReq, eCount, eRet,
                   workerVars, totalCount, statVars, logPush, crashed, nextSeq,
                   ePlaced, histVars>>

\* lines 269-278: platform disabled for the app: continue
queueNotification_SkipDisabled(e) ==
    /\ Running
    /\ InLoop(e)
    /\ ~UnknownApp(CurNotif(e))
    /\ PlatformDisabled(CurNotif(e))
    /\ eIdx' = [eIdx EXCEPT ![e] = @ + 1]
    /\ eDropped' = [eDropped EXCEPT ![e] = @ + 1]
    /\ UNCHANGED <<traceVars, callVars, registryVars, QueueNotification, epc, eReq, eCount, eRet,
                   workerVars, totalCount, statVars, logError, logPush, crashed,
                   nextSeq, ePlaced, histVars>>

\* counting notifications instead of tokens
CountAfter_PerNotification(count, n) == count + 1

\* line 281
CountAfter(count, n) == count + Len(n.Tokens)

\* lines 279-281: QueueNotification <- notification; count += len(Tokens)
queueNotification_Send(e) ==
    /\ Running
    /\ InLoop(e)
    /\ ~UnknownApp(CurNotif(e))
    /\ ~PlatformDisabled(CurNotif(e))
    /\ ChanCanSend(QueueNotification)
    /\ LET item == [seq |-> nextSeq + 1, n |-> CurNotif(e)]
       IN /\ QueueNotification' = ChanSend(QueueNotification, item)
          /\ ePlaced' = [ePlaced EXCEPT ![e] = Append(@, item)]
    /\ nextSeq' = nextSeq + 1
    /\ eCount' = [eCount EXCEPT ![e] = CountAfter(@, CurNotif(e))]
    /\ eIdx' = [eIdx EXCEPT ![e] = @ + 1]
    /\ UNCHANGED <<traceVars, callVars, registryVars, epc, eReq, eRet, workerVars, totalCount, statVars,
                   logError, logPush, crashed, eDropped, histVars>>

\* lines 284-286: StatStorage.AddTotalCount(int64(count)); return count
queueNotification_Return(e) ==
    /\ Running
    /\ epc[e] = "loop"
    /\ eIdx[e] > Len(eReq[e])
    /\ totalCount' = totalCount + eCount[e]
    /\ eRet' = [eRet EXCEPT ![e] = eCount[e]]
    /\ epc' = [epc EXCEPT ![e] = "done"]
    /\ UNCHANGED <<traceVars, callVars, registryVars, QueueNotification, eReq, eIdx, eCount, workerVars,
                   statVars, logError, logPush, crashed, nextSeq, ePlaced,
                   eDropped, histVars>>

\* ------------------------------------------------------------ CheckMessage
ErrTooManyIDs == "the message may specify at most 1000 registration IDs"
ErrTimeToLive ==
    "the message's TimeToLive field must be an integer between 0 and 2419200 (4 weeks)"

\* a ceiling that 1000 tokens already exceed
TooManyIDs_Inclusive(req) ==
    req.Platform = PlatFormAndroid /\ Len(req.Tokens) >= MaxRegistrationIDs

\* line 116
TooManyIDs(req) ==
    req.Platform = PlatFormAndroid /\ Len(req.Tokens) > MaxRegistrationIDs

\* a range that leaves out its upper end
TimeToLiveOutOfRange_Exclusive(req) ==
    /\ req.Platform = PlatFormAndroid
    /\ req.TimeToLive # NilTTL
    /\ (req.TimeToLive < 0 \/ MaxTimeToLive <= req.TimeToLive)

\* line 123; TimeToLive is a *uint, NilTTL when nil
TimeToLiveOutOfRange(req) ==
    /\ req.Platform = PlatFormAndroid
    /\ req.TimeToLive # NilTTL
    /\ (req.TimeToLive < 0 \/ MaxTimeToLive < req.TimeToLive)

ErrEmptyToken == "the token must not be empty"

\* a check that looks at the platform field and at the first token only
EmptyFirstToken_IosOnly(req) ==
    req.Platform = PlatFormIos /\ req.Tokens[1] = ""

\* line 110: the token count is compared with the platform constant
EmptyFirstToken(req) ==
    Len(req.Tokens) = PlatFormIos /\ req.Tokens[1] = ""

\* The error CheckMessage returns for req, NoErr for nil.
CheckMessage(req) ==
    IF req.Message = "" THEN "the message must not be empty"
    ELSE IF Len(req.Tokens) = 0
        THEN "the message must specify at least one registration ID"
    ELSE IF EmptyFirstToken(req) THEN ErrEmptyToken
    ELSE IF TooManyIDs(req) THEN ErrTooManyIDs
    ELSE IF TimeToLiveOutOfRange(req) THEN ErrTimeToLive
    ELSE NoErr

\* -------------------------------------------------- GetAndroidNotification
\* the body is the message whatever the sub-object says
AndroidBody_MessageOnly(req) == req.Message

\* lines 457-462: Set request message if body is empty
AndroidBody(req) ==
    IF Len(req.Notification.Body) = 0 THEN req.Message ELSE req.Notification.Body

\* lines 464-466
AndroidTitle(req) ==
    IF Len(req.Title) > 0 THEN req.Title ELSE req.Notification.Title

\* a message for the first token only
AndroidRegistrationIds_FirstOnly(req) == SubSeq(req.Tokens, 1, 1)

\* line 443
AndroidRegistrationIds(req) == req.Tokens

\* the gcm.HttpMessage GetAndroidNotification returns
GetAndroidNotification(req) ==
    [RegistrationIds |-> AndroidRegistrationIds(req),
     TimeToLive |-> req.TimeToLive,
     Notification |-> [Body |-> AndroidBody(req), Title |-> AndroidTitle(req)]]

\* line 457: the message points at the Notification of the function's own req,
\* which the writes of lines 461 and 465 therefore change
ReqAfter(req) ==
    [req EXCEPT !.Notification = GetAndroidNotification(req).Notification]

\* line 432: req is passed by value; the caller keeps what it passed
CallerAfter(callerReq, calleeReq) == callerReq

\* ---------------------------------------------------------- initAPNSClient
\* The (client, err) initAPNSClient returns; gen numbers the handle it builds.
initAPNSClient(AppID, gen) ==
    LET ios == PushConf.Apps[AppID].Ios
    IN  IF AppExists(AppID) /\ ios.Enabled
        THEN IF ios.KeyExt \notin {".p12", ".pem"}
             THEN [client |-> NilClient, err |-> "Wrong Certificate key extension."]
             ELSE IF ~ios.CertLoads
             THEN [client |-> NilClient, err |-> "certificate error"]
             ELSE [client |-> [app |-> AppID, gen |-> gen], err |-> NoErr]
        ELSE [client |-> NilClient, err |-> NoErr]

\* ------------------------------------------------------------- startWorker
\* the dispatcher the switch of lines 244-249 selects
Dispatcher(n) ==
    CASE n.Platform = PlatFormIos -> "ios"
      [] n.Platform = PlatFormAndroid -> "android"
      [] OTHER -> "none"

\* lines 243-249: notification := <-QueueNotification; switch on Platform
startWorker_Recv(w) ==
    /\ Running
    /\ wpc[w] = "recv"
    /\ ChanCanRecv(QueueNotification)
    /\ LET item == ChanRecvValue(QueueNotification)
           to == Dispatcher(item.n)
       IN /\ QueueNotification' = ChanRecvRest(QueueNotification)
          /\ deqLog' = Append(deqLog, [seq |-> item.seq, to |-> to])
          /\ IF to = "none"
             THEN /\ completed' = completed \cup {item.seq}
                  /\ UNCHANGED <<wCur, wpc>>
             ELSE /\ wCur' = [wCur EXCEPT ![w] = item]
                  /\ wpc' = [wpc EXCEPT ![w] = IF to = "ios" THEN "rlock" ELSE "android"]
                  /\ UNCHANGED completed
    /\ UNCHANGED <<traceVars, callVars, registryVars, enqVars, wClient, wErr, wTok, wIsError, totalCount,
                   statVars, logError, logPush, crashed, nextSeq, initCount,
                   initFailed, returned>>

\* the dispatcher returns and the worker loops: its locals are gone
WorkerLoops(w) ==
    /\ wpc' = [wpc EXCEPT ![w] = "recv"]
    /\ wCur' = [wCur EXCEPT ![w] = NoItem]
    /\ wClient' = [wClient EXCEPT ![w] = NilClient]
    /\ wErr' = [wErr EXCEPT ![w] = NoErr]
    /\ wTok' = [wTok EXCEPT ![w] = 0]
    /\ wIsError' = [wIsError EXCEPT ![w] = FALSE]
    /\ completed' = completed \cup {wCur[w].seq}

\* ----------------------------------------------------------- GetAPNSClient
\* LogPush(status, token, req, err)
PushLog(status, token, item, err) ==
    SetToBag({[status |-> status, token |-> token, seq |-> item.seq, err |-> err]})

\* PushToIOS or PushToAndroid returns ret for item
Returns(item, ret) == [seq |-> item.seq, ret |-> ret]

\* lines 392-399: GetAPNSClient has returned (client, err) to PushToIOS
PushToIOS_AfterGet(w, client, err) ==
    /\ returned' = [returned EXCEPT ![wCur[w].n.AppID] = @ \cup {client}]
    /\ IF err # NoErr
       THEN \* lines 393-397: log, isError = true, return isError
            /\ logPush' = logPush (+) PushLog("failed", "", wCur[w], err)
            /\ dispatchRet' = dispatchRet \cup {Returns(wCur[w], TRUE)}
            /\ WorkerLoops(w)
       ELSE IF Len(wCur[w].n.Tokens) = 0
       THEN \* the loop of line 399 has nothing to do: return isError
            /\ dispatchRet' = dispatchRet \cup {Returns(wCur[w], wIsError[w])}
            /\ WorkerLoops(w)
            /\ UNCHANGED logPush
       ELSE /\ wpc' = [wpc EXCEPT ![w] = "push"]
            /\ wTok' = [wTok EXCEPT ![w] = 1]
            /\ wClient' = [wClient EXCEPT ![w] = client]
            /\ wErr' = [wErr EXCEPT ![w] = err]
            /\ UNCHANGED <<logPush, wCur, wIsError, completed, dispatchRet>>

Present(m, AppID) == m[AppID] # Absent

\* RLock is granted while no goroutine holds the lock exclusively
CanRLock == wlock = {}
\* Lock is granted while no goroutine holds the lock at all
CanLock == wlock = {} /\ rlock = {}

\* lines 214-215: RLock; client, present = clients[AppID]
GetAPNSClient_RLock(w) ==
    /\ Running
    /\ wpc[w] = "rlock"
    /\ CanRLock
    /\ rlock' = rlock \cup {w}
    /\ LET a == wCur[w].n.AppID
       IN IF Present(clients, a)
          THEN /\ wClient' = [wClient EXCEPT ![w] = clients[a]]
               /\ wpc' = [wpc EXCEPT ![w] = "rhit"]
          ELSE /\ wpc' = [wpc EXCEPT ![w] = "rmiss"]
               /\ UNCHANGED wClient
    /\ UNCHANGED <<traceVars, callVars, mapIsNil, clients, wlock, QueueNotification, enqVars, wCur, wErr,
                   wTok, wIsError, totalCount, statVars, logError, logPush,
                   crashed, nextSeq, histVars>>

\* the shared lock is kept
RUnlock_Forgotten(holders, w) == holders

\* lines 217 and 226: the holders of the shared lock after w's RUnlock
RUnlock(holders, w) == holders \ {w}

\* lines 217 and 226: RUnlock, on the miss path and on the hit path (which
\* returns client, err)
GetAPNSClient_RUnlock(w) ==
    /\ Running
    /\ wpc[w] \in {"rhit", "rmiss"}
    /\ rlock' = RUnlock(rlock, w)
    /\ IF wpc[w] = "rhit"
       THEN PushToIOS_AfterGet(w, wClient[w], wErr[w])
       ELSE /\ wpc' = [wpc EXCEPT ![w] = "lock"]
            /\ UNCHANGED <<returned, logPush, wCur, wClient, wErr, wTok, wIsError,
                           completed, dispatchRet>>
    /\ UNCHANGED <<netCalls, callVars, mapIsNil, clients, wlock, QueueNotification, enqVars,
                   totalCount, statVars, logError, crashed, nextSeq, deqLog,
                   initCount, initFailed>>

\* line 218: Lock
GetAPNSClient_Lock(w) ==
    /\ Running
    /\ wpc[w] = "lock"
    /\ CanLock
    /\ wlock' = wlock \cup {w}
    /\ wpc' = [wpc EXCEPT ![w] = "locked"]
    /\ UNCHANGED <<traceVars, callVars, mapIsNil, clients, rlock, QueueNotification, enqVars, wCur,
                   wClient, wErr, wTok, wIsError, totalCount, statVars,
                   logError, logPush, crashed, nextSeq, histVars>>

\* no second check: every miss constructs
PresentUnderLock_Skipped(m, AppID) == FALSE

\* line 219: the second presence check, under the exclusive lock
PresentUnderLock(m, AppID) == Present(m, AppID)

\* line 222: what the map holds for AppID after the store of client
Store(m, AppID, client) == [m EXCEPT ![AppID] = client]

\* lines 219-223: re-check; if still absent, initAPNSClient and store its client
GetAPNSClient_Init(w) ==
    /\ Running
    /\ wpc[w] = "locked"
    /\ LET a == wCur[w].n.AppID
           r == initAPNSClient(a, initCount[a] + 1)
       IN IF PresentUnderLock(clients, a)
          THEN /\ wClient' = [wClient EXCEPT ![w] = clients[a]]
               /\ wpc' = [wpc EXCEPT ![w] = "unlock"]
               /\ UNCHANGED <<clients, wErr, initCount, initFailed, crashed, logError>>
          ELSE /\ initCount' = [initCount EXCEPT ![a] = @ + 1]
               \* line 189: LogError.Error("Cert Error:", ...)
               /\ logError' = IF r.err # NoErr
                               THEN logError (+) SetToBag({[msg |-> "Cert Error", app |-> a]})
                               ELSE logError
               /\ initFailed' = IF r.err # NoErr THEN initFailed \cup {a} ELSE initFailed
               /\ wClient' = [wClient EXCEPT ![w] = r.client]
               /\ wErr' = [wErr EXCEPT ![w] = r.err]
               /\ IF mapIsNil
                  THEN \* assignment to entry in nil map: panic
                       /\ crashed' = TRUE
                       /\ UNCHANGED <<clients, wpc>>
                  ELSE /\ clients' = Store(clients, a, r.client)
                       /\ wpc' = [wpc EXCEPT ![w] = "unlock"]
                       /\ UNCHANGED crashed
    /\ UNCHANGED <<traceVars, callVars, mapIsNil, rlock, wlock, QueueNotification, enqVars, wCur, wTok,
                   wIsError, totalCount, statVars, logPush, nextSeq,
                   deqLog, completed, returned>>

\* lines 224 and 229: Unlock; return client, err
GetAPNSClient_Unlock(w) ==
    /\ Running
    /\ wpc[w] = "unlock"
    /\ wlock' = wlock \ {w}
    /\ PushToIOS_AfterGet(w, wClient[w], wErr[w])
    /\ UNCHANGED <<netCalls, callVars, mapIsNil, clients, rlock, QueueNotification, enqVars,
                   totalCount, statVars, logError, crashed, nextSeq, deqLog,
                   initCount, initFailed>>

\* --------------------------------------------------------------- PushToIOS

\* what one apnsClient.Push can come back with: a transport or protocol error,
\* a response with a status other than 200, a response with status 200
PushOutcomes == {"error", "rejected", "sent"}

\* a network call: apnsClient.Push (the k-th of its notification, to ids[1])
\* or gcm.SendHttp (to ids, with key)
NetCall(kind, item, k, ids, key, outcome, results) ==
    [kind |-> kind, seq |-> item.seq, k |-> k, ids |-> ids, key |-> key,
     outcome |-> outcome, results |-> results]

\* lines 404-418: only the err != nil branch sets isError
IsErrorAfter(isError, outcome) == isError \/ outcome = "error"

\* a loop that gives up at the first error
TokenLoopEnds_OnError(outcome, k, n) == k = n \/ outcome # "sent"

\* lines 399, 409, 417: every branch goes on with the next token; the loop
\* ends after the k-th token of n
TokenLoopEnds(outcome, k, n) == k = n

\* failures counted on transport errors only
IosErrorDelta_ErrorOnly(outcome) == IF outcome = "error" THEN 1 ELSE 0

\* lines 408, 416: the argument of StatStorage.AddIosError, 0 if not called
IosErrorDelta(outcome) == IF outcome \in {"error", "rejected"} THEN 1 ELSE 0

\* line 422: the argument of StatStorage.AddIosSuccess, 0 if not called
IosSuccessDelta(outcome) == IF outcome = "sent" THEN 1 ELSE 0

\* StatStorage.AddIosSuccess / AddIosError / AddAndroidSuccess /
\* AddAndroidError: the counter after adding n, in one step
StatAdd(counter, n) == counter + n

\* lines 399-424: one iteration of the token loop
PushToIOS_Push(w, outcome) ==
    /\ Running
    /\ wpc[w] = "push"
    /\ LET item == wCur[w]
           token == item.n.Tokens[wTok[w]]
           isErr == IsErrorAfter(wIsError[w], outcome)
       IN IF wClient[w] = NilClient
          THEN \* apnsClient.Push on the nil client: nil pointer dereference
               /\ crashed' = TRUE
               /\ UNCHANGED <<logPush, iosSuccess, iosError, workerVars, completed,
                              traceVars>>
          ELSE /\ netCalls' = netCalls (+)
                      SetToBag({NetCall("apns", item, wTok[w], <<token>>, "", outcome, <<>>)})
               /\ logPush' = logPush (+)
                      (CASE outcome = "error" -> PushLog("failed", token, item, "apns error")
                         [] outcome = "rejected" -> PushLog("failed", token, item, "reason")
                         [] OTHER -> PushLog("succeeded", token, item, NoErr))
               /\ iosError' = StatAdd(iosError, IosErrorDelta(outcome))
               /\ iosSuccess' = StatAdd(iosSuccess, IosSuccessDelta(outcome))
               /\ IF TokenLoopEnds(outcome, wTok[w], Len(item.n.Tokens))
                  THEN \* line 426: return isError
                       /\ dispatchRet' = dispatchRet \cup {Returns(item, isErr)}
                       /\ WorkerLoops(w)
                  ELSE /\ wTok' = [wTok EXCEPT ![w] = @ + 1]
                       /\ wIsError' = [wIsError EXCEPT ![w] = isErr]
                       /\ UNCHANGED <<wpc, wCur, wClient, wErr, completed, dispatchRet>>
               /\ UNCHANGED crashed
    /\ UNCHANGED <<callVars, registryVars, QueueNotification, enqVars, totalCount,
                   androidSuccess, androidError, logError, nextSeq, deqLog,
                   initCount, initFailed, returned>>

\* ----------------------------------------------------------- PushToAndroid
\* the per-token results a completed gcm.SendHttp can carry for ids
GcmResults(ids) == [1..Len(ids) -> {"", "NotRegistered"}]
CountOf(results, v) == Cardinality({i \in DOMAIN results : results[i] = v})

\* res.Success and res.Failure of the response whose Results are results
ResSuccess(results) == CountOf(results, "")
ResFailure(results) == Len(results) - CountOf(results, "")

\* lines 500-507: one LogPush per entry of res.Results, from the k-th on
RECURSIVE ResultLogs(_, _, _)
ResultLogs(k, results, item) ==
    IF k > Len(results) THEN EmptyBag
    ELSE PushLog(IF results[k] # "" THEN "failed" ELSE "succeeded",
                 item.n.Tokens[k], item, results[k])
         (+) ResultLogs(k + 1, results, item)

\* a batch with a failed token does not count as sent
PushToAndroid_Ret_AllDelivered(checkErr, transportErr, results) ==
    checkErr = NoErr /\ ~transportErr /\ ResFailure(results) = 0

\* lines 483, 493, 509: what PushToAndroid returns
PushToAndroid_Ret(checkErr, transportErr, results) ==
    checkErr = NoErr /\ ~transportErr

\* a failed batch counted as one failure
AndroidErrorAfter_PerBatch(count, results) ==
    StatAdd(count, IF ResFailure(results) > 0 THEN 1 ELSE 0)

\* line 498
AndroidErrorAfter(count, results) == StatAdd(count, ResFailure(results))

\* line 497
AndroidSuccessAfter(count, results) == StatAdd(count, ResSuccess(results))

\* lines 476-510: CheckMessage, one gcm.SendHttp, accounting
PushToAndroid(w, transportErr, results) ==
    /\ Running
    /\ wpc[w] = "android"
    /\ LET item == wCur[w]
           req == item.n
           notification == GetAndroidNotification(req)
           ret == PushToAndroid_Ret(CheckMessage(req), transportErr, results)
       IN /\ IF CheckMessage(req) # NoErr
             THEN /\ logError' = logError (+)
                         SetToBag({[msg |-> "request error", app |-> req.AppID]})
                  /\ UNCHANGED <<logPush, androidSuccess, androidError, netCalls>>
             ELSE IF transportErr
             THEN /\ netCalls' = netCalls (+)
                         SetToBag({NetCall("gcm", item, 0, notification.RegistrationIds,
                                           req.APIKey, "error", <<>>)})
                  /\ logError' = logError (+)
                         SetToBag({[msg |-> "GCM server error", app |-> req.AppID]})
                  /\ UNCHANGED <<logPush, androidSuccess, androidError>>
             ELSE /\ netCalls' = netCalls (+)
                         SetToBag({NetCall("gcm", item, 0, notification.RegistrationIds,
                                           req.APIKey, "done", results)})
                  /\ androidSuccess' = AndroidSuccessAfter(androidSuccess, results)
                  /\ androidError' = AndroidErrorAfter(androidError, results)
                  /\ logPush' = logPush (+) ResultLogs(1, results, item)
                  /\ UNCHANGED logError
          /\ dispatchRet' = dispatchRet \cup {Returns(item, ret)}
    /\ WorkerLoops(w)
    /\ UNCHANGED <<callVars, registryVars, QueueNotification, enqVars, totalCount, iosSuccess,
                   iosError, crashed, nextSeq, deqLog, initCount, initFailed,
                   returned>>

\* --------------------------------------------------------- specifications
EnqueuerStep(e) ==
    \/ queueNotification_SkipUnknown(e)
    \/ queueNotification_SkipDisabled(e)
    \/ queueNotification_Send(e)
    \/ queueNotification_Return(e)

WorkerStep(w) ==
    \/ startWorker_Recv(w)
    \/ GetAPNSClient_RLock(w)
    \/ GetAPNSClient_RUnlock(w)
    \/ GetAPNSClient_Lock(w)
    \/ GetAPNSClient_Init(w)
    \/ GetAPNSClient_Unlock(w)
    \/ \E o \in PushOutcomes : PushToIOS_Push(w, o)
    \/ \E t \in BOOLEAN : \E r \in GcmResults(wCur[w].n.Tokens) : PushToAndroid(w, t, r)

Next ==
    \/ \E e \in Enqueuers : queueNotification_SkipUnknown(e)
    \/ \E e \in Enqueuers : queueNotification_SkipDisabled(e)
    \/ \E e \in Enqueuers : queueNotification_Send(e)
    \/ \E e \in Enqueuers : queueNotification_Return(e)
    \/ \E w \in Workers : startWorker_Recv(w)
    \/ \E w \in Workers : GetAPNSClient_RLock(w)
    \/ \E w \in Workers : GetAPNSClient_RUnlock(w)
    \/ \E w \in Workers : GetAPNSClient_Lock(w)
    \/ \E w \in Workers : GetAPNSClient_Init(w)
    \/ \E w \in Workers : GetAPNSClient_Unlock(w)
    \/ \E w \in Workers : \E o \in PushOutcomes : PushToIOS_Push(w, o)
    \/ \E w \in Workers : \E t \in BOOLEAN :
           \E r \in GcmResults(wCur[w].n.Tokens) : PushToAndroid(w, t, r)

Spec == Init /\ [][Next]_vars

\* Every goroutine that can take a step is eventually scheduled.
FairSpec ==
    /\ Init
    /\ [][Next]_vars
    /\ \A e \in Enqueuers : WF_vars(EnqueuerStep(e))
    /\ \A w \in Workers : WF_vars(WorkerStep(w))

\* ------------------------------------- the pipeline on iOS notifications
\* an iOS notification with two tokens for the default app
IosPair == Notif(<<"t1", "t2">>, PlatFormIos, "hello", "")

\* requests of iOS notifications: none, or one notification for two devices
IosRequests == << <<>>, <<IosPair>> >>

IosInit ==
    /\ Quiescent
    /\ mapIsNil \in BOOLEAN
    /\ \E k \in [Enqueuers -> DOMAIN IosRequests] :
          /\ \A e1, e2 \in Enqueuers : e1 <= e2 => k[e1] <= k[e2]
          /\ eReq = [e \in Enqueuers |-> IosRequests[k[e]]]
    /\ SumLen(eReq, Enqueuers) <= MaxNotifications
    /\ callArg = NoItem.n
    /\ callRes = NoResult

IosNext ==
    \/ \E e \in Enqueuers : queueNotification_Send(e)
    \/ \E e \in Enqueuers : queueNotification_Return(e)
    \/ \E w \in Workers : startWorker_Recv(w)
    \/ \E w \in Workers : GetAPNSClient_RLock(w)
    \/ \E w \in Workers : GetAPNSClient_RUnlock(w)
    \/ \E w \in Workers : GetAPNSClient_Lock(w)
    \/ \E w \in Workers : GetAPNSClient_Init(w)
    \/ \E w \in Workers : GetAPNSClient_Unlock(w)
    \/ \E w \in Workers : \E o \in PushOutcomes : PushToIOS_Push(w, o)

IosSpec == IosInit /\ [][IosNext]_vars

\* ------------------------------------------- single calls of a function
\* n registration IDs
Toks(n) == [i \in 1..n |-> "t"]

TokenCounts ==
    {0, 1, 2, MaxRegistrationIDs - 1, MaxRegistrationIDs, MaxRegistrationIDs + 1}
TimeToLives ==
    {NilTTL, 0, 1, MaxTimeToLive - 1, MaxTimeToLive, MaxTimeToLive + 1}

\* token lists with empty tokens in them
EmptyTokenLists == {<<"">>, <<"", "">>, <<"", "t">>, <<"t", "">>}

\* the PushNotification values handed to CheckMessage and to
\* GetAndroidNotification
CallArgs ==
    { [Tokens |-> t, Platform |-> p, Message |-> m, AppID |-> "",
       APIKey |-> "", TimeToLive |-> ttl, Title |-> title,
       Notification |-> [Body |-> nb, Title |-> nt]] :
        t \in {Toks(n) : n \in TokenCounts} \cup EmptyTokenLists,
        p \in {PlatFormIos, PlatFormAndroid, 3},
        m \in {"", "hello"},
        ttl \in TimeToLives,
        title \in {"", "title"},
        nb \in {"", "body"},
        nt \in {"", "subtitle"} }

CallInit ==
    /\ Quiescent
    /\ mapIsNil = FALSE
    /\ eReq = [e \in Enqueuers |-> <<>>]
    /\ callArg \in CallArgs
    /\ callRes = NoResult

\* err := CheckMessage(req)
Call_CheckMessage ==
    /\ callRes.fn = "none"
    /\ callRes' = [fn |-> "CheckMessage", arg |-> callArg,
                   err |-> CheckMessage(callArg), msg |-> NoMessage]
    /\ UNCHANGED <<callArg, pipelineVars>>

\* notification := GetAndroidNotification(req)
Call_GetAndroidNotification ==
    /\ callRes.fn = "none"
    /\ callRes' = [fn |-> "GetAndroidNotification", arg |-> callArg,
                   err |-> NoErr, msg |-> GetAndroidNotification(callArg)]
    /\ callArg' = CallerAfter(callArg, ReqAfter(callArg))
    /\ UNCHANGED pipelineVars

CallNext ==
    \/ Call_CheckMessage
    \/ Call_GetAndroidNotification

CallSpec == CallInit /\ [][CallNext]_vars

\* ------------------------------------------------------------------ claims
Seqs(s) == {s[i].seq : i \in DOMAIN s}
BusyWorkers == {w \in Workers : wCur[w] # NoItem}
DoneCalls == {e \in Enqueuers : epc[e] = "done"}

RECURSIVE SumTokens(_)
SumTokens(items) ==
    IF items = <<>> THEN 0 ELSE Len(Head(items).n.Tokens) + SumTokens(Tail(items))

RECURSIVE SumOver(_, _)
SumOver(f, S) ==
    IF S = {} THEN 0
    ELSE LET x == CHOOSE y \in S : TRUE IN f[x] + SumOver(f, S \ {x})

\* C1: concurrent first lookups for one application identity run
\* initAPNSClient once, and every caller is handed the same client.
C1_SingleFlight ==
    \A a \in AllApps :
        /\ initCount[a] <= 1
        /\ Cardinality(returned[a]) <= 1
        /\ returned[a] # {} => initCount[a] = 1
        /\ \A w \in Workers :
              (wpc[w] = "push" /\ wCur[w].n.AppID = a) => wClient[w] \in returned[a]

\* two workers missed on their first lookup for the same app; one built the
\* client and uses it, the other found it under the exclusive lock
C1_Witness ==
    \E w1, w2 \in Workers :
        /\ w1 # w2
        /\ wpc[w1] = "push"
        /\ wpc[w2] = "unlock"
        /\ wCur[w1].n.AppID = wCur[w2].n.AppID
        /\ wClient[w1] # NilClient
        /\ wClient[w2] = wClient[w1]
        /\ initCount[wCur[w1].n.AppID] = 1

\* C2: after a failed initAPNSClient no later GetAPNSClient call gets the nil
\* client out of the cache with a nil error.
C2_NoPoison ==
    \A w \in Workers :
        (wpc[w] = "push" /\ wCur[w].n.AppID \in initFailed) => wClient[w] # NilClient

\* C3: the channel never holds more than queueNum items; the sends completed
\* are exactly the items still queued plus the items received, so a send on a
\* full channel waits for a receive and nothing is dropped or overwritten.
C3_BoundedBlocking ==
    /\ Len(QueueNotification) <= QueueNum
    /\ Cardinality(Seqs(QueueNotification)) = Len(QueueNotification)
    /\ Seqs(QueueNotification) \cap Seqs(deqLog) = {}
    /\ Seqs(QueueNotification) \cup Seqs(deqLog) = 1..nextSeq
    /\ nextSeq <= Len(deqLog) + QueueNum
    /\ \A i \in DOMAIN QueueNotification :
          \E e \in Enqueuers : \E j \in DOMAIN ePlaced[e] :
              ePlaced[e][j] = QueueNotification[i]

\* the channel is full and a call is blocked in its send
C3_Witness ==
    /\ Len(QueueNotification) = QueueNum
    /\ \E e \in Enqueuers :
          /\ InLoop(e)
          /\ ~UnknownApp(CurNotif(e))
          /\ ~PlatformDisabled(CurNotif(e))

\* C4: every item is received by one worker only and handed to a dispatcher
\* once.
C4_ExactlyOnce ==
    /\ \A i, j \in DOMAIN deqLog : i # j => deqLog[i].seq # deqLog[j].seq
    /\ \A w1, w2 \in BusyWorkers : w1 # w2 => wCur[w1].seq # wCur[w2].seq
    /\ \A w \in BusyWorkers :
          wCur[w].seq \in Seqs(deqLog) /\ wCur[w].seq \notin completed
    /\ completed \subseteq Seqs(deqLog)
    /\ Cardinality(BusyWorkers) + Cardinality(completed) = Len(deqLog)

\* both workers are dispatching, each its own item
C4_Witness ==
    /\ Cardinality(BusyWorkers) >= 2
    /\ Len(deqLog) >= 2

\* C5: every item placed on the channel is eventually dispatched to
\* completion, and every call of queueNotification eventually returns (stated
\* for the runs in which the registry's map is allocated).
C5_NoStarvation ==
    /\ \A s \in 1..MaxNotifications :
          (~mapIsNil /\ nextSeq >= s) ~> (s \in completed)
    /\ \A e \in Enqueuers : (~mapIsNil /\ epc[e] = "loop") ~> (epc[e] = "done")

\* C6: items leave the channel in the order their sends completed.
C6_FIFO ==
    /\ \A i \in DOMAIN deqLog : deqLog[i].seq = i
    /\ \A i \in DOMAIN QueueNotification :
          QueueNotification[i].seq = Len(deqLog) + i

\* two items were received in send order, and the dispatch of the second
\* finished before the dispatch of the first
C6_Witness ==
    /\ Len(deqLog) >= 2
    /\ 2 \in completed
    /\ 1 \notin completed

\* a notification, its AppID defaulted, that must not enter the pipeline
Ineligible(n) ==
    \/ n.AppID \notin DOMAIN PushConf.Apps
    \/ n.Platform = PlatFormIos /\ ~PushConf.Apps[n.AppID].Ios.Enabled
    \/ n.Platform = PlatFormAndroid /\ ~PushConf.Apps[n.AppID].Android.Enabled

Eligible(n) == ~Ineligible(DefaultApp(n))

\* the notifications of a sequence of items
Notifs(items) == [i \in DOMAIN items |-> items[i].n]
Defaulted(req) == [i \in DOMAIN req |-> DefaultApp(req[i])]

\* C7: an ineligible notification is never queued, never counted and never
\* dispatched; the other notifications of its request are still queued.
C7_IneligibleNeverEnter ==
    /\ \A i \in DOMAIN QueueNotification : ~Ineligible(QueueNotification[i].n)
    /\ \A w \in BusyWorkers : ~Ineligible(wCur[w].n)
    /\ \A e \in Enqueuers :
          /\ \A i \in DOMAIN ePlaced[e] : ~Ineligible(ePlaced[e][i].n)
          /\ epc[e] = "done" =>
                /\ Notifs(ePlaced[e]) = Defaulted(SelectSeq(eReq[e], Eligible))
                /\ eRet[e] = SumTokens(ePlaced[e])
    /\ totalCount = SumOver([e \in Enqueuers |-> SumTokens(ePlaced[e])], DoneCalls)

\* a call that skipped an ineligible notification and queued the next one
C7_Witness ==
    \E e \in DoneCalls :
        /\ Len(eReq[e]) = 2
        /\ ~Eligible(eReq[e][1])
        /\ Eligible(eReq[e][2])
        /\ Len(ePlaced[e]) = 1
        /\ ePlaced[e][1].seq \in completed

\* the LogError records queueNotification writes for a dropped notification
DropLogs ==
    SumOver([r \in BagToSet(logError) |->
                 IF r.msg = "Unknown app" THEN CopiesIn(r, logError) ELSE 0],
            BagToSet(logError))

\* C8: every notification dropped by queueNotification as ineligible, for
\* an unknown app or for a disabled platform, is logged as an error.
C8_EveryDropLogged ==
    DropLogs = SumOver(eDropped, Enqueuers)

\* C9: a call adds to the total the token count of what it queued, and
\* returns it.
C9_TotalCountsTokens ==
    /\ \A e \in DoneCalls : eRet[e] = SumTokens(ePlaced[e])
    /\ totalCount = SumOver(eRet, DoneCalls)
    /\ \A e \in Enqueuers : eCount[e] = SumTokens(ePlaced[e])

\* a call returned 2 for the one notification, with two tokens, it queued
C9_Witness ==
    \E e \in DoneCalls :
        /\ Len(ePlaced[e]) = 1
        /\ eRet[e] = 2
        /\ totalCount >= 2

Invalid(n) ==
    \/ n.Message = ""
    \/ Len(n.Tokens) = 0
    \/ n.Platform = PlatFormAndroid /\ Len(n.Tokens) > MaxRegistrationIDs

\* C10: a notification with an empty message, no token, or (Android) more
\* than 1000 tokens is never in the channel and never counted.
C10_InvalidNeverQueued ==
    /\ \A i \in DOMAIN QueueNotification : ~Invalid(QueueNotification[i].n)
    /\ \A e \in Enqueuers : \A i \in DOMAIN ePlaced[e] : ~Invalid(ePlaced[e][i].n)

\* the call of CheckMessage has returned
Checked == callRes.fn = "CheckMessage"

\* C11: for an Android notification with a non-empty message CheckMessage
\* returns the 'at most 1000 registration IDs' error when there are more than
\* 1000 tokens and not when there are exactly 1000; it never returns that
\* error for an iOS notification.
C11_TokenCeiling ==
    Checked =>
        /\ (callArg.Platform = PlatFormAndroid /\ callArg.Message # "") =>
              /\ Len(callArg.Tokens) > 1000 => callRes.err = ErrTooManyIDs
              /\ Len(callArg.Tokens) = 1000 => callRes.err # ErrTooManyIDs
        /\ callArg.Platform = PlatFormIos => callRes.err # ErrTooManyIDs

\* CheckMessage refused 1001 Android tokens
C11_Witness ==
    /\ Checked
    /\ callArg.Platform = PlatFormAndroid
    /\ Len(callArg.Tokens) = 1001
    /\ callRes.err = ErrTooManyIDs

\* valid but for its time-to-live
OtherwiseValid(n) ==
    /\ n.Message # ""
    /\ Len(n.Tokens) > 0
    /\ \A i \in DOMAIN n.Tokens : n.Tokens[i] # ""
    /\ Len(n.Tokens) <= 1000

\* C12: an otherwise valid Android notification with a time-to-live is
\* rejected when the value is outside [0, 2419200] and accepted inside, 0 and
\* 2419200 included; without a time-to-live, or for iOS, the check rejects
\* nothing.
C12_TimeToLiveRange ==
    Checked =>
        /\ (callArg.Platform = PlatFormAndroid /\ OtherwiseValid(callArg)
              /\ callArg.TimeToLive # NilTTL) =>
              IF 0 <= callArg.TimeToLive /\ callArg.TimeToLive <= 2419200
              THEN callRes.err = NoErr
              ELSE callRes.err = ErrTimeToLive
        /\ (callArg.TimeToLive = NilTTL \/ callArg.Platform = PlatFormIos) =>
              callRes.err # ErrTimeToLive

\* CheckMessage accepted an Android notification with time-to-live 2419200
C12_Witness ==
    /\ Checked
    /\ callArg.Platform = PlatFormAndroid
    /\ callArg.TimeToLive = 2419200
    /\ callRes.err = NoErr

\* the call of GetAndroidNotification has returned
Built == callRes.fn = "GetAndroidNotification"

\* C19: the message's body is the sub-object's body when that is non-empty
\* and the plain message otherwise; its title is the top-level title when one
\* is given and the sub-object's title otherwise; the caller's notification
\* is as it was.
C19_AndroidBodyTitle ==
    Built =>
        /\ callRes.msg.Notification.Body =
              IF callRes.arg.Notification.Body # ""
              THEN callRes.arg.Notification.Body
              ELSE callRes.arg.Message
        /\ callRes.msg.Notification.Title =
              IF callRes.arg.Title # ""
              THEN callRes.arg.Title
              ELSE callRes.arg.Notification.Title
        /\ callArg = callRes.arg

\* the message took over the body, and the explicit title replaced the
\* sub-object's
C19_Witness ==
    /\ Built
    /\ callRes.arg.Notification.Body = ""
    /\ callRes.arg.Message = "hello"
    /\ callRes.msg.Notification.Body = "hello"
    /\ callRes.arg.Title = "title"
    /\ callRes.arg.Notification.Title = "subtitle"
    /\ callRes.msg.Notification.Title = "title"

\* the items the calls of queueNotification have placed on the channel
PlacedItems == UNION {{ePlaced[e][i] : i \in DOMAIN ePlaced[e]} : e \in Enqueuers}
IosItems == {it \in PlacedItems : it.n.Platform = PlatFormIos}
AndroidItems == {it \in PlacedItems : it.n.Platform = PlatFormAndroid}

\* the number of records of the bag B that satisfy P
CountIn(B, P(_)) ==
    BagCardinality([r \in {x \in BagToSet(B) : P(x)} |-> CopiesIn(r, B)])

\* LogPush records of a failure for the item seq
FailedLogs(seq) == LET P(r) == r.seq = seq /\ r.status = "failed" IN CountIn(logPush, P)
\* LogPush records for the item seq
PushLogs(seq) == LET P(r) == r.seq = seq IN CountIn(logPush, P)
\* apnsClient.Push calls for the item seq, and those for its k-th token
ApnsCalls(seq) == LET P(c) == c.kind = "apns" /\ c.seq = seq IN CountIn(netCalls, P)
ApnsCallsAt(seq, k) ==
    LET P(c) == c.kind = "apns" /\ c.seq = seq /\ c.k = k IN CountIn(netCalls, P)
\* gcm.SendHttp calls for the item seq
GcmCalls(seq) == {c \in BagToSet(netCalls) : c.kind = "gcm" /\ c.seq = seq}
GcmCallCount(seq) == LET P(c) == c.kind = "gcm" /\ c.seq = seq IN CountIn(netCalls, P)

\* C13: PushToIOS returns true exactly when a token of the notification
\* failed, by a transport error or by a status other than 200, or the client
\* could not be obtained.
C13_IosReturnValue ==
    \A r \in dispatchRet :
        (\E it \in IosItems : it.seq = r.seq) => (r.ret <=> FailedLogs(r.seq) > 0)

\* C14: the iOS counters grow by one per token, success for a token that was
\* sent and failure for any other, with one log record per token, also when
\* several workers dispatch at once.
C14_IosAccounting ==
    /\ LET P(c) == c.kind = "apns" /\ c.outcome = "sent"
       IN iosSuccess = CountIn(netCalls, P)
    /\ LET P(c) == c.kind = "apns" /\ c.outcome # "sent"
       IN iosError = CountIn(netCalls, P)
    /\ \A it \in IosItems : \A k \in DOMAIN it.n.Tokens :
          /\ LET P(r) == r.seq = it.seq /\ r.token = it.n.Tokens[k]
             IN CountIn(logPush, P) = ApnsCallsAt(it.seq, k)
          /\ LET P(r) == r.seq = it.seq /\ r.token = it.n.Tokens[k]
                           /\ r.status = "succeeded"
                 Q(c) == c.kind = "apns" /\ c.seq = it.seq /\ c.k = k
                           /\ c.outcome = "sent"
             IN CountIn(logPush, P) = CountIn(netCalls, Q)
          /\ (it.seq \in completed /\ it.n.AppID \notin initFailed) =>
                ApnsCallsAt(it.seq, k) = 1
    /\ (initFailed = {} /\ \A it \in IosItems : it.seq \in completed) =>
          iosSuccess + iosError = SumOver([it \in IosItems |-> Len(it.n.Tokens)], IosItems)

\* two notifications of two tokens each are done: three tokens were sent and
\* one was not
C14_Witness ==
    /\ completed = {1, 2}
    /\ Cardinality(IosItems) = 2
    /\ iosSuccess = 3
    /\ iosError = 1

\* GetAPNSClient has returned to PushToIOS for the item and line 393 is passed
HandleStepOver(it) ==
    \/ it.seq \in completed
    \/ \E w \in Workers : wCur[w] = it /\ wpc[w] = "push"

\* C15: a notification for an app whose client cannot be obtained, also one
\* that comes after the failed construction, is logged as failed once, gets
\* no per-token call and changes no counter.
C15_HandleUnavailable ==
    \A it \in IosItems :
        (it.n.AppID \in initFailed /\ HandleStepOver(it)) =>
            /\ FailedLogs(it.seq) = 1
            /\ PushLogs(it.seq) = 1
            /\ ApnsCalls(it.seq) = 0

\* C16: PushToAndroid makes one gcm.SendHttp call, with all the tokens, for a
\* notification that passes CheckMessage, and none for one that does not.
C16_AndroidOneCall ==
    /\ \A it \in AndroidItems :
          /\ GcmCallCount(it.seq) =
                (IF it.seq \in completed /\ CheckMessage(it.n) = NoErr THEN 1 ELSE 0)
          /\ \A c \in GcmCalls(it.seq) : c.ids = it.n.Tokens
    /\ \A c \in BagToSet(netCalls) :
          c.kind = "gcm" => \E it \in AndroidItems : it.seq = c.seq

\* a notification with two tokens went out in one call
C16_Witness ==
    \E it \in AndroidItems :
        /\ it.seq \in completed
        /\ Len(it.n.Tokens) = 2
        /\ GcmCallCount(it.seq) = 1
        /\ \E c \in GcmCalls(it.seq) : Len(c.ids) = 2

\* C17: PushToAndroid returns true when the call completed, whatever the
\* per-token results, and false only when CheckMessage fails or the call
\* returns a transport error.
C17_AndroidReturnValue ==
    \A r \in dispatchRet : \A it \in AndroidItems :
        it.seq = r.seq =>
            /\ r.ret <=> (\E c \in GcmCalls(it.seq) : c.outcome = "done")
            /\ ~r.ret =>
                  \/ CheckMessage(it.n) # NoErr
                  \/ \E c \in GcmCalls(it.seq) : c.outcome = "error"

\* PushToAndroid returned true for a batch all of whose tokens failed
C17_Witness ==
    \E r \in dispatchRet : \E it \in AndroidItems :
        /\ it.seq = r.seq
        /\ r.ret
        /\ \E c \in GcmCalls(it.seq) :
              /\ Len(c.results) = 2
              /\ \A k \in DOMAIN c.results : c.results[k] # ""

\* the entries of results that report an error, or none
Entries(results, failed) ==
    Cardinality({k \in DOMAIN results : (results[k] # "") = failed})

\* the entries, over all the completed gcm.SendHttp calls
ReportedEntries(failed) ==
    LET done == {c \in BagToSet(netCalls) : c.kind = "gcm" /\ c.outcome = "done"}
        hits == UNION {{<<c, k>> : k \in {j \in DOMAIN c.results :
                                            (c.results[j] # "") = failed}} : c \in done}
    IN BagCardinality([x \in hits |-> CopiesIn(x[1], netCalls)])

\* C18: a batch whose call fails, or that fails CheckMessage, changes no
\* Android counter and logs no token; a completed call adds the response's
\* success and failure counts and logs one record per result entry, for the
\* token at the entry's position.
C18_AndroidAllOrNothing ==
    /\ androidSuccess = ReportedEntries(FALSE)
    /\ androidError = ReportedEntries(TRUE)
    /\ \A it \in AndroidItems :
          IF \E c \in GcmCalls(it.seq) : c.outcome = "done"
          THEN \A c \in GcmCalls(it.seq) :
                 /\ PushLogs(it.seq) = Len(c.results)
                 /\ \A k \in DOMAIN c.results :
                       CopiesIn([status |-> IF c.results[k] # "" THEN "failed"
                                            ELSE "succeeded",
                                 token |-> it.n.Tokens[k], seq |-> it.seq,
                                 err |-> c.results[k]], logPush)
                       = Cardinality({j \in DOMAIN c.results :
                                        /\ it.n.Tokens[j] = it.n.Tokens[k]
                                        /\ c.results[j] = c.results[k]})
          ELSE PushLogs(it.seq) = 0

\* one batch of two tokens was answered with a success and a failure
C18_Witness ==
    \E it \in AndroidItems : \E c \in GcmCalls(it.seq) :
        /\ c.outcome = "done"
        /\ c.results = <<"", "NotRegistered">>
        /\ androidSuccess = 1
        /\ androidError = 1
        /\ PushLogs(it.seq) = 2

\* the tokens of the item PushToIOS is through with
TokensDone(it) ==
    IF it.seq \in completed /\ it.n.AppID \notin initFailed
    THEN Len(it.n.Tokens)
    ELSE IF \E w \in Workers : wCur[w] = it /\ wpc[w] = "push"
    THEN wTok[CHOOSE w \in Workers : wCur[w] = it /\ wpc[w] = "push"] - 1
    ELSE 0

\* C20: with a client, PushToIOS calls Push once per token, in the order of
\* the token list and one at a time, each call for the token the loop is at;
\* the calls for the later tokens are made whatever the earlier ones gave.
C20_IosPerToken ==
    \A it \in IosItems :
        /\ \A k \in DOMAIN it.n.Tokens :
              ApnsCallsAt(it.seq, k) = (IF k <= TokensDone(it) THEN 1 ELSE 0)
        /\ \A c \in BagToSet(netCalls) :
              (c.kind = "apns" /\ c.seq = it.seq) =>
                  /\ c.k \in DOMAIN it.n.Tokens
                  /\ c.ids = <<it.n.Tokens[c.k]>>
        /\ Cardinality({w \in Workers : wCur[w] = it}) <= 1

\* the call for the first token came back with an error and the call for the
\* second token was made and sent it
C20_Witness ==
    \E it \in IosItems : \E c1, c2 \in BagToSet(netCalls) :
        /\ it.seq \in completed
        /\ c1.kind = "apns" /\ c1.seq = it.seq /\ c1.k = 1 /\ c1.outcome = "error"
        /\ c2.kind = "apns" /\ c2.seq = it.seq /\ c2.k = 2 /\ c2.outcome = "sent"

\* C21: CheckMessage returns 'the token must not be empty' exactly when the
\* message is non-empty, there is exactly one token (the count that equals
\* the iOS platform value 1) and that token is empty, whatever the platform
\* field says; with two or more tokens it never returns that error, empty
\* tokens or not.
C21_LegacyEmptyToken ==
    Checked =>
        /\ (callRes.err = "the token must not be empty") <=>
              /\ callArg.Message # ""
              /\ Len(callArg.Tokens) = 1
              /\ callArg.Tokens[1] = ""
        /\ Len(callArg.Tokens) >= 2 =>
              callRes.err # "the token must not be empty"

\* CheckMessage refused an Android notification for its one empty token
C21_Witness ==
    /\ Checked
    /\ callArg.Platform = PlatFormAndroid
    /\ callArg.Message # ""
    /\ callArg.Tokens = <<"">>
    /\ callRes.err = "the token must not be empty"

\* C22: the batched call PushToAndroid makes for a notification carries the
\* API key of the application configuration its application identity selects.
C22_AndroidCredential ==
    \A it \in AndroidItems : \A c \in GcmCalls(it.seq) :
        c.key = PushConf.Apps[it.n.AppID].Android.APIKey

\* C23: every notification placed on the queue (and so counted) has platform
\* iOS (1) or Android (2), and every dequeued notification is handed to the
\* iOS or the Android dispatcher.
C23_OnlyIosOrAndroid ==
    /\ \A it \in PlacedItems : it.n.Platform \in {1, 2}
    /\ \A i \in DOMAIN deqLog : deqLog[i].to \in {"ios", "android"}

\* the locks worker w holds
Held(w) == (IF w \in rlock THEN {"shared"} ELSE {}) \cup
           (IF w \in wlock THEN {"exclusive"} ELSE {})

\* worker w is inside a call of GetAPNSClient
InGetAPNSClient(w) ==
    wpc[w] \in {"rlock", "rhit", "rmiss", "lock", "locked", "unlock"}

\* C24: at most one caller holds the registry's exclusive lock, and while it
\* is held nobody holds the shared lock; a caller holds a lock only inside
\* GetAPNSClient (the shared one only around the first lookup, the exclusive
\* one only around the re-check and the construction), so every call has
\* released what it acquired when it has returned, found, constructed or
\* failed; and a caller whose per-token push is in progress holds no lock.
C24_LockDiscipline ==
    /\ Cardinality(wlock) <= 1
    /\ wlock # {} => rlock = {}
    /\ \A w \in Workers :
          /\ "shared" \in Held(w) => wpc[w] \in {"rhit", "rmiss"}
          /\ "exclusive" \in Held(w) => wpc[w] \in {"locked", "unlock"}
          /\ ~InGetAPNSClient(w) => Held(w) = {}
          /\ wpc[w] = "push" => Held(w) = {}

\* a worker is pushing for an app whose client it got, holding nothing, while
\* another holds the exclusive lock, after a construction has failed
C24_Witness ==
    \E w1, w2 \in Workers :
        /\ wpc[w1] = "push"
        /\ Held(w1) = {}
        /\ Held(w2) = {"exclusive"}
        /\ initFailed # {}

\* C25: in every reachable state iOS-success plus iOS-failure is at most the
\* total-accepted counter.
C25_OutcomesWithinTotal ==
    iosSuccess + iosError <= totalCount

====
